---- MODULE Spec2Model ----
(***************************************************************************)
(* Model of mkdocs_git_revision_date_localized_plugin/util.py: the Util     *)
(* class (repository location, shallow-clone advisory, per-file revision    *)
(* date query, date formatting) and the helpers is_shallow_clone and        *)
(* commit_count.                                                            *)
(***************************************************************************)
EXTENDS Integers, Sequences, FiniteSets, TLC

VARIABLES
    cwd,              \* working directory of the process
    repo_roots,       \* directories that hold a git repository (a .git directory)
    shallow_roots,    \* repository roots whose .git directory holds the file "shallow"
    environ,          \* os.environ restricted to the CI indicator variables
    config,           \* the config dict handed to Util(...)
    refs,             \* lines of `git for-each-ref` in the repository that gets located
    pc,               \* "start", "constructed" (Util(...) returned) or "raised"
    ctor_path,        \* the path argument Util(...) was called with
    fallback_enabled, \* self.fallback_enabled
    repo,             \* self.repo: the root the handle is bound to, or Unset
    n_commits,        \* the local n_commits of __init__ (None when never assigned)
    logging,          \* messages __init__ sent to the logging module
    exc,              \* exception __init__ propagated ("" when none)
    clock,            \* wall clock, in half seconds after ClockStart
    calls,            \* number of get_revision_date_for_file calls made
    git_log_calls,    \* number of `git log` queries issued through self.repo
    last,             \* observation of the latest get_revision_date_for_file call
    fmt_in,           \* arguments of a direct _date_formats call
    fmt_out           \* its outcome

vars == <<cwd, repo_roots, shallow_roots, environ, config, refs, pc, ctor_path,
          fallback_enabled, repo, n_commits, logging, exc, clock, calls,
          git_log_calls, last, fmt_in, fmt_out>>

env_vars == <<cwd, repo_roots, shallow_roots, environ, config, refs>>
inst_vars == <<pc, ctor_path, fallback_enabled, repo, n_commits, logging, exc>>
call_vars == <<calls, git_log_calls, last>>
fmt_vars == <<fmt_in, fmt_out>>

(***************************************************************************)
(* Bounds of the model.                                                    *)
(***************************************************************************)
MaxRefs == 3        \* longest reference listing
MaxClock == 2       \* the clock advances this many half seconds
MaxCalls == 2       \* per-file queries made on one instance
MaxDelta == 1       \* seconds added to each anchor timestamp

(***************************************************************************)
(* Python values: None, bool, str and float, and the builtins the code      *)
(* applies to them.                                                         *)
(***************************************************************************)
PyNone == [t |-> "None", s |-> "", n |-> 0, h |-> 0]
PyBool(b) == [t |-> "bool", s |-> "", n |-> IF b THEN 1 ELSE 0, h |-> 0]
PyStr(str) == [t |-> "str", s |-> str, n |-> 0, h |-> 0]
\* a float with value n + h/2
PyFloat(sec, half) == [t |-> "float", s |-> "", n |-> sec, h |-> half]

\* Python truth value: None, False, "" and 0.0 are false
Truthy(v) ==
    CASE v.t = "None" -> FALSE
      [] v.t = "bool" -> v.n = 1
      [] v.t = "str" -> Len(v.s) > 0
      [] v.t = "float" -> v.n # 0 \/ v.h # 0

DigitStr == <<"0", "1", "2", "3", "4", "5", "6", "7", "8", "9">>

IsDigit(c) == \E d \in 1..10 : DigitStr[d] = c

DigitOf(c) == (CHOOSE d \in 1..10 : DigitStr[d] = c) - 1

RECURSIVE ParseInt(_, _)
\* decimal value of the digit string str, acc being the value read so far
ParseInt(str, acc) ==
    IF Len(str) = 0 THEN acc
    ELSE ParseInt(SubSeq(str, 2, Len(str)), 10 * acc + DigitOf(SubSeq(str, 1, 1)))

IsIntLiteral(str) ==
    Len(str) > 0 /\ \A i \in 1..Len(str) : IsDigit(SubSeq(str, i, i))

\* int(v) for a str or a float (truncation); callers pass what int() accepts
PyInt(v) == IF v.t = "str" THEN ParseInt(v.s, 0) ELSE v.n

RECURSIVE Str(_)
\* str(n) for n >= 0
Str(n) == IF n < 10 THEN DigitStr[n + 1] ELSE Str(n \div 10) \o DigitStr[(n % 10) + 1]

\* n zero-padded to width 2 / 4, as %02d / %04d
Pad2(n) == IF n < 10 THEN "0" \o Str(n) ELSE Str(n)
Pad4(n) ==
    IF n < 10 THEN "000" \o Str(n)
    ELSE IF n < 100 THEN "00" \o Str(n)
    ELSE IF n < 1000 THEN "0" \o Str(n)
    ELSE Str(n)

(***************************************************************************)
(* Date arithmetic of datetime: a datetime is [y, mo, d, hh, mi, ss, off],  *)
(* off being the UTC offset in seconds of its tzinfo.                       *)
(***************************************************************************)
SecondsPerDay == 86400

\* proleptic Gregorian date of a day number counted from 1970-01-01
CivilFromDays(days) ==
    LET z == days + 719468
        era == z \div 146097
        doe == z - era * 146097
        yoe == (doe - doe \div 1460 + doe \div 36524 - doe \div 146096) \div 365
        doy == doe - (365 * yoe + yoe \div 4 - yoe \div 100)
        mp == (5 * doy + 2) \div 153
        d == doy - (153 * mp + 2) \div 5 + 1
        m == IF mp < 10 THEN mp + 3 ELSE mp - 9
        y == yoe + era * 400 + (IF m <= 2 THEN 1 ELSE 0)
    IN [y |-> y, mo |-> m, d |-> d]

\* the datetime whose fields read `secs` seconds after the epoch, tagged with off
DateTimeOf(secs, off) ==
    LET days == secs \div SecondsPerDay
        rem == secs % SecondsPerDay
        ymd == CivilFromDays(days)
    IN [y |-> ymd.y, mo |-> ymd.mo, d |-> ymd.d,
        hh |-> rem \div 3600, mi |-> (rem % 3600) \div 60, ss |-> rem % 60,
        off |-> off]

\* datetime.utcfromtimestamp(n): naive UTC fields
utcfromtimestamp(n) == DateTimeOf(n, 0)

\* the tz database as far as modelled: zones with one fixed offset since 1970
TimeZones == {"UTC", "Asia/Kolkata", "America/Phoenix"}
BadTimeZone == "Mars/Olympus"

\* babel.dates.get_timezone(name).utcoffset, in seconds
UtcOffset(time_zone) ==
    CASE time_zone = "UTC" -> 0
      [] time_zone = "Asia/Kolkata" -> 19800
      [] time_zone = "America/Phoenix" -> -25200

\* utc.replace(tzinfo=UTC).astimezone(tz) for the instant n seconds after the epoch
astimezone(n, time_zone) == DateTimeOf(n + UtcOffset(time_zone), UtcOffset(time_zone))

(***************************************************************************)
(* strftime, isoformat and babel's format_date(format="long").              *)
(***************************************************************************)
Directive(dt, item) ==
    CASE item = "%Y" -> Pad4(dt.y)
      [] item = "%m" -> Pad2(dt.mo)
      [] item = "%d" -> Pad2(dt.d)
      [] item = "%H" -> Pad2(dt.hh)
      [] item = "%M" -> Pad2(dt.mi)
      [] item = "%S" -> Pad2(dt.ss)
      [] OTHER -> item

RECURSIVE strftime(_, _)
\* dt.strftime(fmt), fmt given as its sequence of directives and literal pieces
strftime(dt, fmt) ==
    IF fmt = <<>> THEN ""
    ELSE Directive(dt, Head(fmt)) \o strftime(dt, Tail(fmt))

FmtTime == <<"%H", ":", "%M", ":", "%S">>
FmtIsoDate == <<"%Y", "-", "%m", "-", "%d">>
FmtIsoDateTime == <<"%Y", "-", "%m", "-", "%d", " ", "%H", ":", "%M", ":", "%S">>

\* the "+HH:MM" / "-HH:MM" suffix isoformat() gives an aware datetime
OffsetSuffix(off) ==
    LET a == IF off < 0 THEN -off ELSE off
    IN (IF off < 0 THEN "-" ELSE "+") \o Pad2(a \div 3600) \o ":" \o Pad2((a % 3600) \div 60)

isoformat(dt) ==
    strftime(dt, <<"%Y", "-", "%m", "-", "%d", "T", "%H", ":", "%M", ":", "%S">>)
        \o OffsetSuffix(dt.off)

Locales == {"en", "nl"}
BadLocale == "xx"

MonthNames(locale) ==
    IF locale = "nl"
    THEN <<"januari", "februari", "maart", "april", "mei", "juni", "juli",
           "augustus", "september", "oktober", "november", "december">>
    ELSE <<"January", "February", "March", "April", "May", "June", "July",
           "August", "September", "October", "November", "December">>

\* format_date(dt, format="long", locale): the date part of dt in the locale's
\* long pattern ("MMMM d, y" for en, "d MMMM y" for nl)
format_date(dt, locale) ==
    IF locale = "nl"
    THEN Str(dt.d) \o " " \o MonthNames(locale)[dt.mo] \o " " \o Str(dt.y)
    ELSE MonthNames(locale)[dt.mo] \o " " \o Str(dt.d) \o ", " \o Str(dt.y)

\* mutant: the time of day taken from the UTC datetime
datetime_time_utc(utc_revision_date, loc_revision_date) ==
    strftime(utc_revision_date, FmtTime)

\* the time of day appended to the long date in "datetime"
datetime_time(utc_revision_date, loc_revision_date) ==
    strftime(loc_revision_date, FmtTime)

FormatsOf(utc_revision_date, loc_revision_date, locale) ==
    [date |-> format_date(loc_revision_date, locale),
     datetime |-> format_date(loc_revision_date, locale) \o " "
                    \o datetime_time(utc_revision_date, loc_revision_date),
     iso_date |-> strftime(loc_revision_date, FmtIsoDate),
     iso_datetime |-> strftime(loc_revision_date, FmtIsoDateTime),
     timeago |-> "<span class='timeago' datetime='" \o isoformat(loc_revision_date)
                   \o "' locale='" \o locale \o "'></span>"]

NoFormats == [date |-> "", datetime |-> "", iso_date |-> "", iso_datetime |-> "",
              timeago |-> ""]

\* Util._date_formats: [raised |-> exception name or "", value |-> the dict]
_date_formats(unix_timestamp, locale, time_zone) ==
    IF unix_timestamp.t = "str" /\ ~IsIntLiteral(unix_timestamp.s)
    THEN [raised |-> "ValueError", value |-> NoFormats]
    ELSE IF time_zone \notin TimeZones
    THEN [raised |-> "LookupError", value |-> NoFormats]
    ELSE IF locale \notin Locales
    THEN [raised |-> "UnknownLocaleError", value |-> NoFormats]
    ELSE LET n == PyInt(unix_timestamp)
             utc_revision_date == utcfromtimestamp(n)
             loc_revision_date == astimezone(n, time_zone)
         IN [raised |-> "", value |-> FormatsOf(utc_revision_date, loc_revision_date, locale)]

(***************************************************************************)
(* The environment: file system, os.environ, the config dict, and the git   *)
(* repository behind the handle.                                            *)
(***************************************************************************)
Dirs == {"/a", "/a/docs", "/b"}
CtorPaths == {".", "/a", "/b"}
NoRepo == "<none>"
Unset == "<unset>"
Missing == "<missing>"

Parent(dir) == IF dir = "/a/docs" THEN "/a" ELSE "/"

RECURSIVE SearchParents(_)
\* the nearest directory at or above dir that holds a repository
SearchParents(dir) ==
    IF dir \in repo_roots THEN dir
    ELSE IF dir = "/" THEN NoRepo
    ELSE SearchParents(Parent(dir))

\* Repo(path, search_parent_directories=True): the root found, NoRepo when it raises
Repo(path) == SearchParents(IF path = "." THEN cwd ELSE path)

\* os.environ.get(name)
EnvironGet(name) == IF environ[name] = Unset THEN PyNone ELSE PyStr(environ[name])

\* config.get(key)
ConfigGet(key) ==
    IF config[key] = Missing THEN PyNone ELSE PyBool(config[key] = "True")

\* Commit graph of the repository: a first-parent chain 1 <- 2 <- ... <- 50 cut at
\* the shallow boundary 1, a side root, and a merge of commit 3 with the side root.
GitlabDepth == 50
GithubDepth == 1
SideRoot == GitlabDepth + 1
MergeTip == GitlabDepth + 2
Parents(c) ==
    IF c = MergeTip THEN <<3, SideRoot>>
    ELSE IF c \in 2..GitlabDepth THEN <<c - 1>>
    ELSE <<>>

\* commits a reference may point to
Tips == {1, 3, 7, GitlabDepth, MergeTip}

RECURSIVE FirstParentCount(_)
\* number of commits on the first-parent chain that starts at c
FirstParentCount(c) ==
    IF Parents(c) = <<>> THEN 1 ELSE 1 + FirstParentCount(Parents(c)[1])

RECURSIVE Reachable(_)
\* every commit reachable from c
Reachable(c) ==
    {c} \cup UNION {Reachable(Parents(c)[i]) : i \in 1..Len(Parents(c))}

\* repo.rev_list(x, count=True, first_parent=True): git's output, a string
rev_list(x) == Str(FirstParentCount(x))

\* a line of `git for-each-ref`, split at white space: <<sha, type, refname>>
RefLine(c) == <<c, "commit", "ref">>

\* repo.for_each_ref().split("\n"): "" gives one empty line
for_each_ref_lines == IF refs = <<>> THEN << <<>> >> ELSE refs

\* mutant: the count of the first reference listed
SeqMax_first(counts) == counts[1]

RECURSIVE SeqMax(_)
\* max(counts) for a non-empty list
SeqMax(counts) ==
    IF Len(counts) = 1 THEN counts[1]
    ELSE LET m == SeqMax(Tail(counts)) IN IF counts[1] >= m THEN counts[1] ELSE m

\* commit_count(repo): [raised |-> exception or "", value |-> max(counts)]
commit_count ==
    LET lines == for_each_ref_lines
    IN IF \E i \in 1..Len(lines) : lines[i] = <<>>
       THEN [raised |-> "IndexError", value |-> 0]
       ELSE LET counts == [i \in 1..Len(lines) |-> PyInt(PyStr(rev_list(lines[i][1])))]
            IN [raised |-> "", value |-> SeqMax(counts)]

\* is_shallow_clone(repo): os.path.exists(".git/shallow"), relative to the cwd
is_shallow_clone(located) == cwd \in shallow_roots

(***************************************************************************)
(* Util.__init__                                                           *)
(***************************************************************************)
MsgNoRepoFallback == "warning: Unable to find a git directory: Falling back to build date"
MsgNoRepoError == "error: Unable to find a git directory"
MsgGitlab == "warning: Running on a gitlab runner might lead to wrong git revision dates"
MsgGithub == "warning: Running on github actions might lead to wrong git revision dates"

NoCount == PyNone
Count(n) == [t |-> "int", s |-> "", n |-> n, h |-> 0]

\* lines 40-49
GitlabWarning(n) ==
    IF Truthy(EnvironGet("GITLAB_CI")) /\ n < GitlabDepth THEN {MsgGitlab} ELSE {}

\* mutant: github compared like gitlab, depth below the default
GithubWarning_below(n) ==
    IF Truthy(EnvironGet("GITHUB_ACTIONS")) /\ n < GithubDepth THEN {MsgGithub} ELSE {}

\* lines 50-59
GithubWarning(n) ==
    IF Truthy(EnvironGet("GITHUB_ACTIONS")) /\ n = GithubDepth THEN {MsgGithub} ELSE {}

\* mutant: the error is swallowed whatever the config says
RepoNotFound_always_fallback ==
    [pc |-> "constructed", fallback_enabled |-> TRUE, repo |-> Unset,
     n_commits |-> NoCount, logging |-> {MsgNoRepoFallback}, exc |-> ""]

\* mutant: the fallback branch returns without setting self.fallback_enabled
RepoNotFound_flag_unset ==
    IF Truthy(ConfigGet("fallback_to_build_date"))
    THEN [pc |-> "constructed", fallback_enabled |-> FALSE, repo |-> Unset,
          n_commits |-> NoCount, logging |-> {MsgNoRepoFallback}, exc |-> ""]
    ELSE [pc |-> "raised", fallback_enabled |-> FALSE, repo |-> Unset,
          n_commits |-> NoCount, logging |-> {MsgNoRepoError},
          exc |-> "InvalidGitRepositoryError"]

\* the except: branch of __init__, Repo(...) having raised
RepoNotFound ==
    IF Truthy(ConfigGet("fallback_to_build_date"))
    THEN [pc |-> "constructed", fallback_enabled |-> TRUE, repo |-> Unset,
          n_commits |-> NoCount, logging |-> {MsgNoRepoFallback}, exc |-> ""]
    ELSE [pc |-> "raised", fallback_enabled |-> FALSE, repo |-> Unset,
          n_commits |-> NoCount, logging |-> {MsgNoRepoError},
          exc |-> "InvalidGitRepositoryError"]

\* the shallow-clone advisory of __init__, self.repo being bound to `located`
ShallowAdvisory(located) ==
    IF ~is_shallow_clone(located)
    THEN [pc |-> "constructed", fallback_enabled |-> FALSE, repo |-> located,
          n_commits |-> NoCount, logging |-> {}, exc |-> ""]
    ELSE LET cc == commit_count
         IN IF cc.raised # ""
            THEN [pc |-> "raised", fallback_enabled |-> FALSE, repo |-> located,
                  n_commits |-> NoCount, logging |-> {}, exc |-> cc.raised]
            ELSE [pc |-> "constructed", fallback_enabled |-> FALSE, repo |-> located,
                  n_commits |-> Count(cc.value),
                  logging |-> GitlabWarning(cc.value) \cup GithubWarning(cc.value),
                  exc |-> ""]

\* Util(path, config)
Util__init__(path) ==
    /\ pc = "start"
    /\ \E o \in {IF Repo(path) = NoRepo THEN RepoNotFound
                ELSE ShallowAdvisory(Repo(path))} :
          /\ pc' = o.pc
          /\ fallback_enabled' = o.fallback_enabled
          /\ repo' = o.repo
          /\ n_commits' = o.n_commits
          /\ logging' = o.logging
          /\ exc' = o.exc
    /\ ctor_path' = path
    /\ UNCHANGED <<env_vars, clock, call_vars, fmt_vars>>

(***************************************************************************)
(* Util.get_revision_date_for_file                                          *)
(***************************************************************************)
ClockStart == 1689964199

\* the float time.time() returns when the clock reads c
TimeAt(c) == PyFloat(ClockStart + c \div 2, c % 2)

\* time.time()
time_time == TimeAt(clock)

MsgLogWarn == "warning: Unable to read git logs: Falling back to build date"
MsgLogError == "error: Unable to read git logs"
MsgGitWarn == "warning: Unable to perform command: 'git log': Falling back to build date"
MsgGitError == "error: Unable to perform command 'git log'"
MsgNoLogs == "warning: has no git logs, using current timestamp"

Paths == {"index.md", "docs/new.md"}

\* what `git log -n 1 --format=%at <path>` may do: print an author timestamp,
\* print nothing (no commit touches the path), or fail
GitLogOutcomes ==
    {[kind |-> "ok", out |-> o] : o \in {"", "0", "1690000000"}}
        \cup {[kind |-> k, out |-> ""] : k \in {"GitCommandError", "GitCommandNotFound"}}

\* locale and time_zone arguments tried by the per-file queries
QueryLocales == {"en", BadLocale}
QueryTimeZones == {"Asia/Kolkata", BadTimeZone}

NoGit == [kind |-> "none", out |-> ""]

\* mutant: the query is issued without looking at self.fallback_enabled
QueryIssued_always == TRUE

\* line 117: whether the try block evaluates self.repo.log(...)
QueryIssued == ~fallback_enabled

\* mutant: the GitCommandNotFound handler never re-raises
OnGitError_not_found_swallowed(kind, fallback_to_build_date) ==
    IF fallback_to_build_date \/ kind = "GitCommandNotFound"
    THEN [ts |-> PyNone, raised |-> "",
          log |-> {IF kind = "GitCommandError" THEN MsgLogWarn ELSE MsgGitWarn}]
    ELSE [ts |-> PyNone, raised |-> kind,
          log |-> {IF kind = "GitCommandError" THEN MsgLogError ELSE MsgGitError}]

\* lines 122-147: the handlers of the two git exceptions
OnGitError(kind, fallback_to_build_date) ==
    IF fallback_to_build_date
    THEN [ts |-> PyNone, raised |-> "",
          log |-> {IF kind = "GitCommandError" THEN MsgLogWarn ELSE MsgGitWarn}]
    ELSE [ts |-> PyNone, raised |-> kind,
          log |-> {IF kind = "GitCommandError" THEN MsgLogError ELSE MsgGitError}]

\* lines 113-147: the try statement
TryGitLog(git, fallback_to_build_date) ==
    IF ~QueryIssued THEN [ts |-> PyNone, raised |-> "", log |-> {}]
    ELSE IF repo = Unset THEN [ts |-> PyNone, raised |-> "AttributeError", log |-> {}]
    ELSE IF git.kind = "ok" THEN [ts |-> PyStr(git.out), raised |-> "", log |-> {}]
    ELSE OnGitError(git.kind, fallback_to_build_date)

\* mutant: `if unix_timestamp is None`
NeedsClock_is_none(unix_timestamp) == unix_timestamp.t = "None"

\* line 150: whether the clock supplies the timestamp
NeedsClock(unix_timestamp) == ~Truthy(unix_timestamp)

\* lines 152-156
NoLogsWarning == IF ~fallback_enabled THEN {MsgNoLogs} ELSE {}

\* lines 149-156: [ts, time_read, log]
CreateTimestamp(unix_timestamp) ==
    IF NeedsClock(unix_timestamp)
    THEN [ts |-> time_time, time_read |-> TRUE, log |-> NoLogsWarning]
    ELSE [ts |-> unix_timestamp, time_read |-> FALSE, log |-> {}]

NoCall ==
    [called |-> FALSE, path |-> "", locale |-> "", time_zone |-> "",
     fallback_to_build_date |-> FALSE, git |-> NoGit, queried |-> FALSE,
     time_read |-> FALSE, at |-> 0, ts |-> PyNone, log |-> {}, raised |-> "",
     result |-> NoFormats]

\* the whole call, as the record observed of it
CallOutcome(path, locale, time_zone, fallback_to_build_date, git) ==
    LET try == TryGitLog(git, fallback_to_build_date)
        base == [NoCall EXCEPT !.called = TRUE, !.path = path, !.locale = locale,
                     !.time_zone = time_zone,
                     !.fallback_to_build_date = fallback_to_build_date,
                     !.queried = QueryIssued,
                     !.git = IF QueryIssued THEN git ELSE NoGit,
                     !.at = clock]
    IN IF try.raised # ""
       THEN [base EXCEPT !.log = try.log, !.raised = try.raised]
       ELSE LET made == CreateTimestamp(try.ts)
                fmt == _date_formats(made.ts, locale, time_zone)
            IN [base EXCEPT !.ts = made.ts, !.time_read = made.time_read,
                    !.log = try.log \cup made.log, !.raised = fmt.raised,
                    !.result = fmt.value]

get_revision_date_for_file(path, locale, time_zone, fallback_to_build_date, git) ==
    /\ pc = "constructed"
    /\ calls < MaxCalls
    /\ \E o \in {CallOutcome(path, locale, time_zone, fallback_to_build_date, git)} :
          /\ last' = o
          /\ git_log_calls' = git_log_calls + (IF o.queried THEN 1 ELSE 0)
    /\ calls' = calls + 1
    /\ UNCHANGED <<env_vars, inst_vars, clock, fmt_vars>>

\* the wall clock advances between operations
Tick ==
    /\ clock < MaxClock
    /\ clock' = clock + 1
    /\ UNCHANGED <<env_vars, inst_vars, call_vars, fmt_vars>>

(***************************************************************************)
(* A direct call of the static method _date_formats.                        *)
(***************************************************************************)
Anchors == {0, 25199, 951782399, 1689983999, 1690000000}

FmtInputs ==
    {[ts |-> v, locale |-> l, time_zone |-> z] :
        v \in {PyStr(Str(a + d)) : a \in Anchors, d \in 0..MaxDelta}
              \cup {PyFloat(a + d, h) : a \in Anchors, d \in 0..MaxDelta, h \in 0..1},
        l \in Locales \cup {BadLocale},
        z \in TimeZones \cup {BadTimeZone}}

NoFmtIn == [ts |-> PyNone, locale |-> "", time_zone |-> ""]
NoFmtOut == [done |-> FALSE, raised |-> "", value |-> NoFormats]

DateFormatsCall ==
    /\ fmt_in # NoFmtIn
    /\ ~fmt_out.done
    /\ LET r == _date_formats(fmt_in.ts, fmt_in.locale, fmt_in.time_zone)
       IN fmt_out' = [done |-> TRUE, raised |-> r.raised, value |-> r.value]
    /\ UNCHANGED <<env_vars, inst_vars, clock, call_vars, fmt_in>>

(***************************************************************************)
(* Initial states and specifications.                                       *)
(***************************************************************************)
EnvValues == {Unset, "", "true"}
ConfigValues == {Missing, "False", "True"}

RECURSIVE RefListings(_)
\* every reference listing of at most n lines
RefListings(n) ==
    IF n = 0 THEN {<<>>}
    ELSE LET shorter == RefListings(n - 1)
         IN shorter \cup {Append(r, RefLine(c)) : r \in shorter, c \in Tips}

InitInstance ==
    /\ pc = "start"
    /\ ctor_path = ""
    /\ fallback_enabled = FALSE
    /\ repo = Unset
    /\ n_commits = NoCount
    /\ logging = {}
    /\ exc = ""
    /\ clock = 0
    /\ calls = 0
    /\ git_log_calls = 0
    /\ last = NoCall
    /\ fmt_out = NoFmtOut

\* construction in every environment
InitCtor ==
    /\ cwd \in Dirs
    /\ repo_roots \in {{}, {"/a"}, {"/a", "/b"}}
    /\ shallow_roots \in SUBSET repo_roots
    /\ environ \in [GITLAB_CI : EnvValues, GITHUB_ACTIONS : EnvValues]
    /\ config \in [fallback_to_build_date : ConfigValues]
    /\ refs \in IF repo_roots = {} THEN {<<>>} ELSE RefListings(MaxRefs)
    /\ fmt_in = NoFmtIn
    /\ InitInstance

NextCtor == \E path \in CtorPaths : Util__init__(path)

SpecCtor == InitCtor /\ [][NextCtor]_vars

\* construction followed by per-file queries: the process runs in the repository
\* /a, and the path handed to Util decides whether a repository is located
QueryCtorPaths == {".", "/b"}

Init ==
    /\ cwd = "/a"
    /\ repo_roots = {"/a"}
    /\ shallow_roots \in SUBSET repo_roots
    /\ environ = [GITLAB_CI |-> "true", GITHUB_ACTIONS |-> Unset]
    /\ config \in [fallback_to_build_date : ConfigValues]
    /\ refs \in {<<>>, <<RefLine(1)>>}
    /\ fmt_in = NoFmtIn
    /\ InitInstance

Next ==
    \/ \E path \in QueryCtorPaths : Util__init__(path)
    \/ Tick
    \/ \E path \in Paths, locale \in QueryLocales, time_zone \in QueryTimeZones,
          fallback_to_build_date \in BOOLEAN, git \in GitLogOutcomes :
            get_revision_date_for_file(path, locale, time_zone,
                                       fallback_to_build_date, git)

Spec == Init /\ [][Next]_vars

\* _date_formats on its own
InitFmt ==
    /\ cwd = "/a"
    /\ repo_roots = {}
    /\ shallow_roots = {}
    /\ environ = [GITLAB_CI |-> Unset, GITHUB_ACTIONS |-> Unset]
    /\ config = [fallback_to_build_date |-> Missing]
    /\ refs = <<>>
    /\ fmt_in \in FmtInputs
    /\ InitInstance

NextFmt == DateFormatsCall

SpecFmt == InitFmt /\ [][NextFmt]_vars

(***************************************************************************)
(* Properties.                                                             *)
(***************************************************************************)
GitErrors == {"GitCommandError", "GitCommandNotFound"}
CiWarnings == {MsgGitlab, MsgGithub}
FormatKeys == {"date", "datetime", "iso_date", "iso_datetime", "timeago"}

\* the construction found no repository
NotLocated == pc # "start" /\ Repo(ctor_path) = NoRepo
\* the construction found one
Located == pc # "start" /\ Repo(ctor_path) # NoRepo
ConfigFallback == config.fallback_to_build_date = "True"

\* the latest call got past the try statement
PastTry == last.called /\ last.raised \notin GitErrors \cup {"AttributeError"}
\* the latest call obtained a non-empty timestamp from git log
FromHistory == last.queried /\ last.git.kind = "ok" /\ last.git.out # ""

\* C1: when no repository is located and the config does not enable
\* fallback_to_build_date, construction propagates the error of Repo(...): no
\* instance exists, so no per-file query is ever made on it and no date comes out.
C1_NoRepoNoFallbackRaises ==
    (NotLocated /\ ~ConfigFallback) =>
        /\ pc = "raised"
        /\ exc = "InvalidGitRepositoryError"
        /\ MsgNoRepoError \in logging
        /\ calls = 0
        /\ last = NoCall

C1_Witness == NotLocated /\ ~ConfigFallback /\ pc = "raised" /\ clock = MaxClock

\* C2: when no repository is located and the config enables fallback_to_build_date,
\* the instance is in fallback-only mode and every per-file query, whatever its
\* path and per-call fallback flag, takes its timestamp from the clock as it reads
\* at the call and issues no git log query.
C2_FallbackOnlyUsesClock ==
    (pc # "start" /\ NotLocated /\ ConfigFallback) =>
        /\ pc = "constructed"
        /\ fallback_enabled
        /\ git_log_calls = 0
        /\ last.called =>
            /\ ~last.queried
            /\ last.time_read
            /\ last.ts = TimeAt(last.at)
            /\ last.raised \notin GitErrors \cup {"AttributeError"}

C2_Witness ==
    /\ NotLocated /\ ConfigFallback /\ fallback_enabled
    /\ calls = 2 /\ last.called /\ ~last.fallback_to_build_date
    /\ last.at > 0 /\ last.raised = "" /\ last.path = "docs/new.md"

\* C3: with a valid locale and time zone a per-file query propagates an error
\* exactly when the git log query was issued, failed (GitCommandError or
\* GitCommandNotFound) and the per-call fallback flag is off, and then it returns
\* nothing; otherwise it returns the formats of a timestamp that is either git's
\* output or the clock's reading.
C3_RaisesIffQueryFailsWithoutFallback ==
    (last.called /\ last.locale \in Locales /\ last.time_zone \in TimeZones) =>
        /\ (last.raised # "") <=>
              (last.queried /\ last.git.kind \in GitErrors /\ ~last.fallback_to_build_date)
        /\ last.raised # "" =>
              (last.raised = last.git.kind /\ last.result = NoFormats /\ last.ts = PyNone)
        /\ last.raised = "" =>
              /\ last.result # NoFormats
              /\ \/ (FromHistory /\ last.ts = PyStr(last.git.out))
                 \/ (last.time_read /\ last.ts = TimeAt(last.at))

C3_Witness ==
    /\ last.called /\ last.locale \in Locales /\ last.time_zone \in TimeZones
    /\ last.raised = "GitCommandNotFound" /\ ~last.fallback_to_build_date
    /\ calls = 2

\* C4: a call that got no timestamp from history (query skipped, failed with the
\* fallback permitted, or empty output) uses the clock's reading and warns "has no
\* git logs" exactly when the instance is not in fallback-only mode; a call that
\* got a non-empty timestamp uses it, does not read the clock and does not warn.
C4_ClockOnlyWithoutHistory ==
    /\ PastTry =>
        IF FromHistory
        THEN /\ last.ts = PyStr(last.git.out)
             /\ ~last.time_read
             /\ MsgNoLogs \notin last.log
        ELSE /\ last.ts = TimeAt(last.at)
             /\ last.time_read
             /\ (MsgNoLogs \in last.log) <=> ~fallback_enabled
    /\ (last.called /\ ~PastTry) => (~last.time_read /\ MsgNoLogs \notin last.log)

C4_Witness ==
    /\ PastTry /\ last.queried /\ last.git.kind = "ok" /\ last.git.out = ""
    /\ MsgNoLogs \in last.log /\ last.ts = TimeAt(last.at) /\ last.raised = ""

\* C5 (as claimed): when the located repository's .git directory holds no shallow
\* marker, construction neither counts commits nor emits a CI warning, whatever
\* the CI variables and the working directory are.
C5_NoMarkerNoAdvisory ==
    (Located /\ Repo(ctor_path) \notin shallow_roots) =>
        /\ n_commits = NoCount
        /\ exc = ""
        /\ logging \cap CiWarnings = {}

C7_IsoDatetimeAgrees ==
    (fmt_out.done /\ fmt_out.raised = "") =>
        LET v == fmt_out.value
        IN /\ DOMAIN v = FormatKeys
           /\ Len(v.datetime) > 8
           /\ v.iso_datetime
                = v.iso_date \o " " \o SubSeq(v.datetime, Len(v.datetime) - 7, Len(v.datetime))
           /\ v.datetime = v.date \o " " \o SubSeq(v.iso_datetime, 12, 19)

C7_Witness ==
    /\ fmt_out.done /\ fmt_out.raised = ""
    /\ fmt_in.time_zone = "America/Phoenix" /\ fmt_in.locale = "nl"
    /\ fmt_out.value.iso_datetime = "1969-12-31 17:00:00"
    /\ fmt_out.value.datetime = "31 december 1969 17:00:00"

\* C8 (as claimed): once a repository is located, construction completes and
\* leaves the handle bound and fallback-only mode off, whatever the shallow
\* marker, the CI variables and the references are.
C8_AdvisoryNeverChangesOutcome ==
    Located =>
        /\ pc = "constructed"
        /\ exc = ""
        /\ repo = Repo(ctor_path)
        /\ ~fallback_enabled

\* C9 (as claimed): with the depth counted, each CI warning is emitted exactly when
\* that environment's variable is set and the depth is below its default depth
\* (50 for gitlab, 1 for github).
C9_WarnsBelowDefaultDepth ==
    n_commits # NoCount =>
        /\ (MsgGitlab \in logging) <=>
              (environ.GITLAB_CI # Unset /\ n_commits.n < GitlabDepth)
        /\ (MsgGithub \in logging) <=>
              (environ.GITHUB_ACTIONS # Unset /\ n_commits.n < GithubDepth)

\* C9 (amended): the gitlab warning is emitted exactly when commit_count returned a
\* depth, GITLAB_CI is set to a non-empty value and the depth is below 50; the
\* github warning exactly when commit_count returned a depth, GITHUB_ACTIONS is set
\* to a non-empty value and the depth equals 1; the two are independent.
C9_WarnsPerEnvironment ==
    pc # "start" =>
        /\ (MsgGitlab \in logging) <=>
              /\ n_commits # NoCount
              /\ environ.GITLAB_CI \notin {Unset, ""}
              /\ n_commits.n < GitlabDepth
        /\ (MsgGithub \in logging) <=>
              /\ n_commits # NoCount
              /\ environ.GITHUB_ACTIONS \notin {Unset, ""}
              /\ n_commits.n = GithubDepth

C9_Witness ==
    /\ pc = "constructed"
    /\ logging = CiWarnings
    /\ n_commits = Count(GithubDepth)
    /\ Len(refs) = 2

\* C10: once construction has returned, exactly one of "the instance holds a
\* repository handle" and "the instance is in fallback-only mode" holds, a git log
\* query is only ever issued through a handle, and no later step changes the mode
\* or the handle.
C10_HandleXorFallback ==
    /\ [](pc = "constructed" =>
            /\ (repo # Unset) # fallback_enabled
            /\ git_log_calls > 0 => repo # Unset
            /\ (last.called /\ last.queried) => repo # Unset)
    /\ [][pc = "constructed" =>
            (pc' = pc /\ fallback_enabled' = fallback_enabled /\ repo' = repo)]_vars

C10_Witness ==
    /\ pc = "constructed" /\ repo # Unset /\ ~fallback_enabled
    /\ calls = 2 /\ git_log_calls = 2 /\ last.raised = "GitCommandError"

\* a worked example: 1690000000 in UTC is 2023-07-22 04:26:40
KnownVector ==
    (fmt_out.done /\ fmt_out.raised = "" /\ PyInt(fmt_in.ts) = 1690000000
        /\ fmt_in.time_zone = "UTC" /\ fmt_in.locale = "en") =>
        /\ fmt_out.value.iso_date = "2023-07-22"
        /\ fmt_out.value.iso_datetime = "2023-07-22 04:26:40"
        /\ fmt_out.value.date = "July 22, 2023"
        /\ fmt_out.value.timeago
             = "<span class='timeago' datetime='2023-07-22T04:26:40+00:00' locale='en'></span>"

====
